---- MODULE Spec2Model ----
(***************************************************************************)
(* Model of pfms_tracking_dashboard.py: one Streamlit script that loads a  *)
(* Google-Sheet CSV export (cached for 60 s), cleans two amount columns,   *)
(* derives Pending = Vetting - Released, narrows the data through three    *)
(* cascading select boxes and renders KPIs, two charts and a table.        *)
(*                                                                         *)
(* Text is modelled as sequences of one-character strings, so that the     *)
(* regex replacement, the parsing and the formatting of cells are          *)
(* computed character by character.  Amounts are exact decimals m * 10^e   *)
(* (binary rounding of float64 is outside the model).  pandas is modelled  *)
(* with the semantics of the 1.x / 2.x releases the script runs on, where  *)
(* astype(str) turns a missing value into the text "nan".                  *)
(***************************************************************************)
EXTENDS Integers, Sequences, FiniteSets, TLC

VARIABLES
    pc,                    \* position of the script in the current render cycle
    clock,                 \* wall clock, in seconds
    cache,                 \* st.cache_data entry of load_and_clean_data(DATA_URL)
    fetched,               \* whether this cycle's call performed requests.get
    df,                    \* df = load_and_clean_data(DATA_URL)
    df_for_project,        \* dataset after the DSO step
    df_for_budget,         \* dataset after the Project Type step
    df_filtered,           \* dataset after the Budget step
    selected_dso, selected_project_type, selected_budget,
    dso_options, project_options, budget_options,
    kpi,                   \* totals and distinct counts of lines 152-159
    div_summary,           \* groupby('Division') result, lines 236-239
    scheme_summary,        \* groupby('Programme_Scheme') result, line 276
    rendered,              \* what the cycle has put on the page so far
    rawColumn,             \* SpecClean: the raw cells of one amount column
    cleaned                \* SpecClean: the column after lines 82-83

vars == <<pc, clock, cache, fetched, df, df_for_project, df_for_budget, df_filtered,
          selected_dso, selected_project_type, selected_budget,
          dso_options, project_options, budget_options,
          kpi, div_summary, scheme_summary, rendered, rawColumn, cleaned>>

----------------------------------------------------------------------------
(* Bounds of the model *)

MaxCellLen == 4      \* longest enumerated raw amount cell, in characters
MaxRows == 2         \* most data rows in a fetched sheet
TickStep == 20       \* seconds the clock advances in one step
MaxClock == 80       \* the clock stops advancing here

----------------------------------------------------------------------------
(* Characters and exact decimals *)

DigitChars == <<"0", "1", "2", "3", "4", "5", "6", "7", "8", "9">>

IsDigit(c) == \E i \in 1..10 : DigitChars[i] = c

DigitVal(c) == (CHOOSE i \in 1..10 : DigitChars[i] = c) - 1

RECURSIVE Pow10(_)
Pow10(n) == IF n <= 0 THEN 1 ELSE 10 * Pow10(n - 1)

Abs(n) == IF n < 0 THEN -n ELSE n

Min(a, b) == IF a <= b THEN a ELSE b

\* The decimal m * 10^e in normal form: m = 0 has e = 0, otherwise 10 does not divide m.
RECURSIVE Normalize(_, _)
Normalize(m, e) ==
    IF m = 0 THEN [m |-> 0, e |-> 0]
    ELSE IF Abs(m) % 10 = 0 THEN Normalize(m \div 10, e + 1)
    ELSE [m |-> m, e |-> e]

Zero == [m |-> 0, e |-> 0]

DecAdd(a, b) ==
    LET k == Min(a.e, b.e)
    IN  Normalize(a.m * Pow10(a.e - k) + b.m * Pow10(b.e - k), k)

DecNeg(a) == [m |-> -a.m, e |-> a.e]

DecSub(a, b) == DecAdd(a, DecNeg(b))

DecLess(a, b) == DecSub(a, b).m < 0

RECURSIVE DigitsVal(_)
DigitsVal(ds) ==
    IF ds = <<>> THEN 0
    ELSE 10 * DigitsVal(SubSeq(ds, 1, Len(ds) - 1)) + DigitVal(ds[Len(ds)])

RECURSIVE IntToDigits(_)
IntToDigits(n) ==
    IF n < 10 THEN <<DigitChars[n + 1]>>
    ELSE IntToDigits(n \div 10) \o <<DigitChars[(n % 10) + 1]>>

RECURSIVE Zeros(_)
Zeros(n) == IF n <= 0 THEN <<>> ELSE <<"0">> \o Zeros(n - 1)

----------------------------------------------------------------------------
(* pd.read_csv: missing cells and the inferred dtype of a column (line 69) *)

NaN == <<"<NaN>">>          \* a missing value; no text is equal to it

NanText == <<"n", "a", "n">>  \* str(float('nan'))

\* Cell texts read_csv takes for a missing value (those of its defaults the model spells).
NAValues == {<<>>, <<"N", "A">>, <<"N", "/", "A">>, NanText, <<"N", "a", "N">>}

IsNA(cell) == cell \in NAValues

HasSign(s) == Len(s) > 0 /\ s[1] \in {"+", "-"}

Unsigned(s) == IF HasSign(s) THEN Tail(s) ELSE s

SignOf(s) == IF Len(s) > 0 /\ s[1] = "-" THEN -1 ELSE 1

DotCount(s) == Cardinality({i \in 1..Len(s) : s[i] = "."})

IsDigitString(u) == Len(u) > 0 /\ \A i \in 1..Len(u) : IsDigit(u[i])

\* digits with at most one decimal point and at least one digit
IsMantissa(u) ==
    /\ \A i \in 1..Len(u) : IsDigit(u[i]) \/ u[i] = "."
    /\ DotCount(u) <= 1
    /\ \E i \in 1..Len(u) : IsDigit(u[i])

ExpMark(s) ==
    IF \E i \in 1..Len(s) : s[i] \in {"e", "E"}
    THEN CHOOSE i \in 1..Len(s) :
            s[i] \in {"e", "E"} /\ \A j \in 1..(i - 1) : s[j] \notin {"e", "E"}
    ELSE 0

MantissaPart(s) == IF ExpMark(s) = 0 THEN s ELSE SubSeq(s, 1, ExpMark(s) - 1)

ExponentPart(s) == IF ExpMark(s) = 0 THEN <<>> ELSE SubSeq(s, ExpMark(s) + 1, Len(s))

\* [sign] digits [. digits] [e [sign] digits]: what the float parser accepts
IsFloatLiteral(s) ==
    /\ IsMantissa(Unsigned(MantissaPart(s)))
    /\ ExpMark(s) = 0 \/ IsDigitString(Unsigned(ExponentPart(s)))

IsIntLiteral(s) == IsDigitString(Unsigned(s))

FracLen(u) ==
    IF DotCount(u) = 0 THEN 0
    ELSE Len(u) - (CHOOSE i \in 1..Len(u) : u[i] = ".")

RECURSIVE TrimTrailingZeros(_)
TrimTrailingZeros(ds) ==
    IF ds # <<>> /\ ds[Len(ds)] = "0" THEN TrimTrailingZeros(SubSeq(ds, 1, Len(ds) - 1))
    ELSE ds

\* the value of a literal: its significant digits, scaled by the fraction and the exponent
FloatValue(s) ==
    LET mant == Unsigned(MantissaPart(s))
        ex   == ExponentPart(s)
        expv == IF ExpMark(s) = 0 THEN 0 ELSE SignOf(ex) * DigitsVal(Unsigned(ex))
        all  == SelectSeq(mant, IsDigit)
        sig  == TrimTrailingZeros(all)
    IN  IF DigitsVal(sig) = 0 THEN Zero
        ELSE [m |-> SignOf(s) * DigitsVal(sig),
              e |-> expv - FracLen(mant) + (Len(all) - Len(sig))]

InferDtype(cells) ==
    LET present == {i \in 1..Len(cells) : ~IsNA(cells[i])}
    IN  IF \A i \in present : IsIntLiteral(cells[i])
        THEN IF present = 1..Len(cells) /\ Len(cells) > 0 THEN "int64" ELSE "float64"
        ELSE IF \A i \in present : IsFloatLiteral(cells[i]) THEN "float64"
        ELSE "object"

----------------------------------------------------------------------------
(* astype(str), str.replace, to_numeric, fillna (lines 82-83) *)

\* str(x) of a float64: positional for 1e-4 <= |x| < 1e16, else d.ddde+XX.
FloatRepr(v) ==
    LET ds   == IntToDigits(Abs(v.m))
        k    == Len(ds)
        x    == v.e + k - 1
        sign == IF v.m < 0 THEN <<"-">> ELSE <<>>
        xd   == IntToDigits(Abs(x))
    IN  IF v.m = 0 \/ x < -324 THEN sign \o <<"0", ".", "0">>
        ELSE IF x > 308 THEN sign \o <<"i", "n", "f">>
        ELSE IF x >= -4 /\ x < 16
        THEN IF v.e >= 0 THEN sign \o ds \o Zeros(v.e) \o <<".", "0">>
             ELSE IF -v.e < k
             THEN sign \o SubSeq(ds, 1, k + v.e) \o <<".">> \o SubSeq(ds, k + v.e + 1, k)
             ELSE sign \o <<"0", ".">> \o Zeros(-v.e - k) \o ds
        ELSE sign \o <<ds[1]>>
                  \o (IF k > 1 THEN <<".">> \o SubSeq(ds, 2, k) ELSE <<>>)
                  \o <<"e">> \o (IF x < 0 THEN <<"-">> ELSE <<"+">>)
                  \o (IF Len(xd) < 2 THEN <<"0">> \o xd ELSE xd)

\* df[col].astype(str) on one cell of a column of the given dtype
AsTypeStr(dtype, cell) ==
    IF dtype = "object" THEN (IF IsNA(cell) THEN NanText ELSE cell)
    ELSE IF dtype = "int64"
    THEN (IF SignOf(cell) < 0 /\ DigitsVal(Unsigned(cell)) # 0 THEN <<"-">> ELSE <<>>)
         \o IntToDigits(DigitsVal(Unsigned(cell)))
    ELSE IF IsNA(cell) THEN NanText ELSE FloatRepr(FloatValue(cell))

IsDigitOrDot(c) == IsDigit(c) \/ c = "."

\* .str.replace(r'[^\d.]', '', regex=True)
StripNonNumeric(s) == SelectSeq(s, IsDigitOrDot)

\* pd.to_numeric(..., errors='coerce') on one text
ToNumeric(s) ==
    IF IsFloatLiteral(s) THEN [ok |-> TRUE, val |-> FloatValue(s)]
    ELSE [ok |-> FALSE, val |-> Zero]

FillNa0(r) == IF r.ok THEN r.val ELSE Zero

\* lines 82-83 applied to a whole column as read_csv delivered it
CleanNumericColumn(cells) ==
    LET dtype == InferDtype(cells)
    IN  [i \in 1..Len(cells) |->
            FillNa0(ToNumeric(StripNonNumeric(AsTypeStr(dtype, cells[i]))))]

----------------------------------------------------------------------------
(* Configuration (lines 20-43, 58) *)

\* raw sheet header -> clean name, for the columns a later stage reads
CLEAN_COLUMN_NAMES ==
    [h \in {"Division-1", "Programme/Scheme", "Sanction File No.-1", "Budget Head-1",
            "Diary No.(General/Capital/Salary)-1", "DSO-1", "Project Type", "Budget Type",
            "Vetting Amount (in INR)", "Credite Amout"} |->
        CASE h = "Division-1" -> "Division"
          [] h = "Programme/Scheme" -> "Programme_Scheme"
          [] h = "Sanction File No.-1" -> "Sanction_File_No"
          [] h = "Budget Head-1" -> "Budget_Head"
          [] h = "Diary No.(General/Capital/Salary)-1" -> "Diary_No"
          [] h = "DSO-1" -> "DSO"
          [] h = "Project Type" -> "Project_Type"
          [] h = "Budget Type" -> "Budget"
          [] h = "Vetting Amount (in INR)" -> "Vetting_Amount_INR"
          [] h = "Credite Amout" -> "Released_Amount_INR"]

FINANCIAL_COLS == {"Vetting_Amount_INR", "Released_Amount_INR"}

KPI_COUNT_COLS == {"Sanction_File_No", "Budget_Head", "Diary_No"}

TTL == 60

AllDSO == <<"A", "l", "l", " ", "D", "S", "O">>

AllProjectTypes ==
    <<"A", "l", "l", " ", "P", "r", "o", "j", "e", "c", "t", " ", "T", "y", "p", "e", "s">>

AllBudgets == <<"A", "l", "l", " ", "B", "u", "d", "g", "e", "t", "s">>

----------------------------------------------------------------------------
(* The sheet behind DATA_URL: what one requests.get may return *)

SheetRow(dso, ptype, budget, division, scheme, sanction, head, diary, vetting, released) ==
    [h \in DOMAIN CLEAN_COLUMN_NAMES |->
        CASE h = "DSO-1" -> dso
          [] h = "Project Type" -> ptype
          [] h = "Budget Type" -> budget
          [] h = "Division-1" -> division
          [] h = "Programme/Scheme" -> scheme
          [] h = "Sanction File No.-1" -> sanction
          [] h = "Budget Head-1" -> head
          [] h = "Diary No.(General/Capital/Salary)-1" -> diary
          [] h = "Vetting Amount (in INR)" -> vetting
          [] h = "Credite Amout" -> released]

\* Rows a sheet may hold: plain rows, missing cells in text columns, a currency
\* sign, a thousands separator, "N/A", a release above the vetted amount.
SampleRows ==
    { SheetRow(<<"D">>, <<"P">>, <<"G">>, <<"X">>, <<"S">>, <<"F">>, <<"H">>, <<"Y">>,
               <<"1", "0", "0">>, <<"4", "0">>),
      SheetRow(<<"D">>, <<"Q">>, <<"C">>, <<"X">>, <<"T">>, <<"F">>, <<>>, <<"Z">>,
               <<"5", "0">>, <<"5", "0">>),
      SheetRow(<<"E">>, <<"P">>, <<"C">>, <<>>, <<"S">>, <<>>, <<"H">>, <<"Y">>,
               <<"2", "0">>, <<"₹", "3", "0">>),
      SheetRow(<<>>, <<"Q">>, <<"G">>, <<"W">>, <<>>, <<"K">>, <<"H">>, <<>>,
               <<"N", "/", "A">>, <<"1", ".", "5">>),
      SheetRow(<<"E">>, <<"Q">>, <<"G">>, <<"W">>, <<"T">>, <<"K">>, <<"J">>, <<"Z">>,
               <<"1", ",", "2", "3", "4", ".", "5", "0">>, <<"0">>) }

\* every sheet of at most MaxRows rows with at most one of the headers absent
Sheets ==
    { [kind |-> "ok", headers |-> hs, rows |-> [i \in 1..n |-> [h \in hs |-> f[i][h]]]] :
        hs \in {DOMAIN CLEAN_COLUMN_NAMES \ m : m \in {{}} \cup {{h} : h \in DOMAIN CLEAN_COLUMN_NAMES}},
        n \in 0..MaxRows,
        f \in [1..MaxRows -> SampleRows] }

\* a transport error, an unparsable body, or a sheet
Responses ==
    { [kind |-> k, headers |-> {}, rows |-> <<>>] : k \in {"request_error", "parse_error"} }
    \cup Sheets

\* the responses whose sheet has every header
CompleteResponses ==
    {r \in Responses : r.kind = "ok" => r.headers = DOMAIN CLEAN_COLUMN_NAMES}

----------------------------------------------------------------------------
(* load_and_clean_data (lines 59-106) *)

EmptyDataFrame == [columns |-> {}, rows |-> <<>>]

HeaderOf(resp, col) == CHOOSE h \in resp.headers : CLEAN_COLUMN_NAMES[h] = col

RawColumn(resp, col) == [i \in 1..Len(resp.rows) |-> resp.rows[i][HeaderOf(resp, col)]]

\* a cell of a column the script leaves as read_csv delivered it
ReadCsvValue(cell) == IF IsNA(cell) THEN NaN ELSE cell

DerivePendingClamped(vetting, released) ==
    IF DecLess(vetting, released) THEN Zero ELSE DecSub(vetting, released)

\* line 87
DerivePending(vetting, released) == DecSub(vetting, released)

LoadedRowKeepingNaN(resp, cols, i) ==
    [c \in cols \cup {"index", "Pending_Amount_INR"} |->
        IF c = "index" THEN i - 1
        ELSE IF c = "Pending_Amount_INR"
        THEN DerivePending(CleanNumericColumn(RawColumn(resp, "Vetting_Amount_INR"))[i],
                           CleanNumericColumn(RawColumn(resp, "Released_Amount_INR"))[i])
        ELSE IF c \in FINANCIAL_COLS THEN CleanNumericColumn(RawColumn(resp, c))[i]
        ELSE ReadCsvValue(resp.rows[i][HeaderOf(resp, c)])]

\* one row of the frame after lines 72-95; "index" is the row label of the frame
LoadedRow(resp, cols, i) ==
    [c \in cols \cup {"index", "Pending_Amount_INR"} |->
        IF c = "index" THEN i - 1
        ELSE IF c = "Pending_Amount_INR"
        THEN DerivePending(CleanNumericColumn(RawColumn(resp, "Vetting_Amount_INR"))[i],
                           CleanNumericColumn(RawColumn(resp, "Released_Amount_INR"))[i])
        ELSE IF c \in FINANCIAL_COLS THEN CleanNumericColumn(RawColumn(resp, c))[i]
        ELSE IF c \in KPI_COUNT_COLS \cup {"DSO", "Project_Type", "Budget"}
        THEN AsTypeStr(InferDtype(RawColumn(resp, c)), resp.rows[i][HeaderOf(resp, c)])
        ELSE ReadCsvValue(resp.rows[i][HeaderOf(resp, c)])]

\* the returned DataFrame and the message the call shows (replayed on a cache hit)
LoadAndClean(resp) ==
    LET cols == {CLEAN_COLUMN_NAMES[h] : h \in resp.headers \cap DOMAIN CLEAN_COLUMN_NAMES}
    IN  IF resp.kind = "request_error"
        THEN [value |-> EmptyDataFrame, message |-> "error_fetch"]
        ELSE IF resp.kind = "parse_error"
        THEN [value |-> EmptyDataFrame, message |-> "error_processing"]
        ELSE IF ~(FINANCIAL_COLS \subseteq cols)
        THEN [value |-> EmptyDataFrame, message |-> "error_financial_columns"]
        ELSE [value |-> [columns |-> cols \cup {"Pending_Amount_INR"},
                         rows |-> [i \in 1..Len(resp.rows) |-> LoadedRow(resp, cols, i)]],
              message |-> "sidebar_success"]

IsEmpty(frame) == frame.columns = {} \/ Len(frame.rows) = 0

----------------------------------------------------------------------------
(* sorted(), unique(), the option lists and the filters (lines 126-149) *)

\* the characters of the model in code-point order
CodePointOrder ==
    <<" ", "+", ",", "-", ".", "/", "0", "1", "2", "3", "4", "5", "6", "7", "8", "9",
      "A", "B", "C", "D", "E", "F", "G", "H", "I", "J", "K", "L", "M", "N", "O", "P", "Q",
      "R", "S", "T", "U", "V", "W", "X", "Y", "Z",
      "a", "b", "c", "d", "e", "f", "g", "h", "i", "j", "k", "l", "m", "n", "o", "p", "q",
      "r", "s", "t", "u", "v", "w", "x", "y", "z", "₹">>

CodePoint(c) == CHOOSE i \in 1..Len(CodePointOrder) : CodePointOrder[i] = c

\* Python's order on str
RECURSIVE StrLess(_, _)
StrLess(a, b) ==
    IF b = <<>> THEN FALSE
    ELSE IF a = <<>> THEN TRUE
    ELSE IF a[1] = b[1] THEN StrLess(Tail(a), Tail(b))
    ELSE CodePoint(a[1]) < CodePoint(b[1])

RECURSIVE Sorted(_)
Sorted(S) ==
    IF S = {} THEN <<>>
    ELSE LET least == CHOOSE x \in S : \A y \in S \ {x} : StrLess(x, y)
         IN  <<least>> \o Sorted(S \ {least})

\* Series.astype(str) on a column that already holds text
AsText(v) == IF v = NaN THEN NanText ELSE v

ColumnValues(rows, col) == {AsText(rows[i][col]) : i \in 1..Len(rows)}

OptionsOfWholeDataset(rows, col, sentinel) ==
    <<sentinel>> \o Sorted(ColumnValues(df.rows, col))

\* [sentinel] + sorted(frame[col].astype(str).unique().tolist())   (lines 130, 138, 146)
Options(rows, col, sentinel) == <<sentinel>> \o Sorted(ColumnValues(rows, col))

ApplyFilterToWholeDataset(rows, col, selected, sentinel) ==
    LET Keep(r) == r[col] = selected
    IN  IF selected # sentinel THEN SelectSeq(df.rows, Keep) ELSE rows

ApplyFilterIgnoringSentinel(rows, col, selected, sentinel) ==
    LET Keep(r) == r[col] = selected
    IN  SelectSeq(rows, Keep)

\* if selected != sentinel: frame = frame[frame[col] == selected]   (lines 132-133, 140-141, 148-149)
ApplyFilter(rows, col, selected, sentinel) ==
    LET Keep(r) == r[col] = selected
    IN  IF selected # sentinel THEN SelectSeq(rows, Keep) ELSE rows

Range(s) == {s[i] : i \in 1..Len(s)}

----------------------------------------------------------------------------
(* KPIs and group summaries (lines 152-159, 236-239, 276) *)

RECURSIVE SumColumn(_, _)
SumColumn(rows, col) ==
    IF rows = <<>> THEN Zero
    ELSE DecAdd(rows[1][col], SumColumn(Tail(rows), col))

\* Series.nunique(): the distinct values that are not NaN
NUnique(rows, col) == Cardinality({rows[i][col] : i \in 1..Len(rows)} \ {NaN})

\* DataFrame.groupby(col): one group per value of col, rows whose key is NaN left out
GroupKeys(rows, col) == {rows[i][col] : i \in 1..Len(rows)} \ {NaN}

GroupRows(rows, col, key) ==
    LET InGroup(r) == r[col] = key
    IN  SelectSeq(rows, InGroup)

NoKpi ==
    [total_vetting |-> Zero, total_released |-> Zero, total_pending |-> Zero,
     count_sanction_file |-> 0, count_budget_head |-> 0, count_diary_no |-> 0]

Unset == <<"<unset>">>

----------------------------------------------------------------------------
(* The render cycle: the script top to bottom *)

CycleReset ==
    /\ df' = EmptyDataFrame
    /\ df_for_project' = <<>>
    /\ df_for_budget' = <<>>
    /\ df_filtered' = <<>>
    /\ selected_dso' = Unset
    /\ selected_project_type' = Unset
    /\ selected_budget' = Unset
    /\ dso_options' = <<>>
    /\ project_options' = <<>>
    /\ budget_options' = <<>>
    /\ kpi' = NoKpi
    /\ div_summary' = <<>>
    /\ scheme_summary' = <<>>
    /\ rendered' = {}
    /\ fetched' = FALSE

NoCache == [present |-> FALSE, storedAt |-> 0, value |-> EmptyDataFrame, message |-> "none"]

Init ==
    /\ pc = "idle"
    /\ clock = 0
    /\ cache = NoCache
    /\ fetched = FALSE
    /\ df = EmptyDataFrame
    /\ df_for_project = <<>>
    /\ df_for_budget = <<>>
    /\ df_filtered = <<>>
    /\ selected_dso = Unset
    /\ selected_project_type = Unset
    /\ selected_budget = Unset
    /\ dso_options = <<>>
    /\ project_options = <<>>
    /\ budget_options = <<>>
    /\ kpi = NoKpi
    /\ div_summary = <<>>
    /\ scheme_summary = <<>>
    /\ rendered = {}
    /\ rawColumn = <<>>
    /\ cleaned = <<>>

CacheAge == clock - cache.storedAt

CacheNeverExpires == cache.present

\* @st.cache_data(ttl=60): an entry younger than ttl is served
CacheFresh == cache.present /\ CacheAge < TTL

\* ... and one older than ttl is not; at exactly ttl the source does not say
CacheStale == ~cache.present \/ CacheAge >= TTL

\* line 110, served from the cache: the stored value and its message, no request
LoadCached ==
    /\ pc = "idle"
    /\ CacheFresh \/ (cache.present /\ CacheAge = TTL)
    /\ df' = cache.value
    /\ rendered' = {cache.message}
    /\ fetched' = FALSE
    /\ pc' = "loaded"
    /\ UNCHANGED <<clock, cache, df_for_project, df_for_budget, df_filtered,
                   selected_dso, selected_project_type, selected_budget,
                   dso_options, project_options, budget_options,
                   kpi, div_summary, scheme_summary, rawColumn, cleaned>>

\* line 110, not served from the cache: requests.get, clean, store
LoadFetchFrom(responses) ==
    /\ pc = "idle"
    /\ CacheStale
    /\ \E resp \in responses :
        LET result == LoadAndClean(resp)
        IN  /\ df' = result.value
            /\ rendered' = {result.message}
            /\ cache' = [present |-> TRUE, storedAt |-> clock,
                         value |-> result.value, message |-> result.message]
    /\ fetched' = TRUE
    /\ pc' = "loaded"
    /\ UNCHANGED <<clock, df_for_project, df_for_budget, df_filtered,
                   selected_dso, selected_project_type, selected_budget,
                   dso_options, project_options, budget_options,
                   kpi, div_summary, scheme_summary, rawColumn, cleaned>>

LoadFetch == LoadFetchFrom(Responses)

LoadFetchComplete == LoadFetchFrom(CompleteResponses)

\* lines 112-113
StopOnEmpty ==
    /\ pc = "loaded"
    /\ IsEmpty(df)
    /\ pc' = "stopped"
    /\ UNCHANGED <<clock, cache, fetched, df, df_for_project, df_for_budget, df_filtered,
                   selected_dso, selected_project_type, selected_budget,
                   dso_options, project_options, budget_options,
                   kpi, div_summary, scheme_summary, rendered, rawColumn, cleaned>>

\* lines 117-136: page header, df_filtered = df.copy(), the DSO select box and filter
SelectDSO ==
    /\ pc = "loaded"
    /\ ~IsEmpty(df)
    /\ IF "DSO" \in df.columns
       THEN \E sel \in Range(Options(df.rows, "DSO", AllDSO)) :
               /\ dso_options' = Options(df.rows, "DSO", AllDSO)
               /\ selected_dso' = sel
               /\ df_filtered' = ApplyFilter(df.rows, "DSO", sel, AllDSO)
               /\ df_for_project' = ApplyFilter(df.rows, "DSO", sel, AllDSO)
               /\ rendered' = rendered \cup {"title", "sidebar_header", "select_dso"}
               /\ pc' = "project"
       ELSE /\ rendered' = rendered \cup {"title", "sidebar_header", "exception"}
            /\ df_filtered' = df.rows
            /\ pc' = "crashed"
            /\ UNCHANGED <<dso_options, selected_dso, df_for_project>>
    /\ UNCHANGED <<clock, cache, fetched, df, df_for_budget,
                   selected_project_type, selected_budget, project_options, budget_options,
                   kpi, div_summary, scheme_summary, rawColumn, cleaned>>

\* lines 137-144: the Project Type select box and filter
SelectProjectType ==
    /\ pc = "project"
    /\ IF "Project_Type" \in df.columns
       THEN \E sel \in Range(Options(df_for_project, "Project_Type", AllProjectTypes)) :
               /\ project_options' = Options(df_for_project, "Project_Type", AllProjectTypes)
               /\ selected_project_type' = sel
               /\ df_filtered' = ApplyFilter(df_filtered, "Project_Type", sel, AllProjectTypes)
               /\ df_for_budget' = ApplyFilter(df_filtered, "Project_Type", sel, AllProjectTypes)
               /\ rendered' = rendered \cup {"select_project_type"}
               /\ pc' = "budget"
       ELSE /\ rendered' = rendered \cup {"exception"}
            /\ pc' = "crashed"
            /\ UNCHANGED <<project_options, selected_project_type, df_filtered, df_for_budget>>
    /\ UNCHANGED <<clock, cache, fetched, df, df_for_project, selected_dso, selected_budget,
                   dso_options, budget_options,
                   kpi, div_summary, scheme_summary, rawColumn, cleaned>>

\* lines 145-149: the Budget select box and filter
SelectBudget ==
    /\ pc = "budget"
    /\ IF "Budget" \in df.columns
       THEN \E sel \in Range(Options(df_for_budget, "Budget", AllBudgets)) :
               /\ budget_options' = Options(df_for_budget, "Budget", AllBudgets)
               /\ selected_budget' = sel
               /\ df_filtered' = ApplyFilter(df_filtered, "Budget", sel, AllBudgets)
               /\ rendered' = rendered \cup {"select_budget"}
               /\ pc' = "kpis"
       ELSE /\ rendered' = rendered \cup {"exception"}
            /\ pc' = "crashed"
            /\ UNCHANGED <<budget_options, selected_budget, df_filtered>>
    /\ UNCHANGED <<clock, cache, fetched, df, df_for_project, df_for_budget,
                   selected_dso, selected_project_type, dso_options, project_options,
                   kpi, div_summary, scheme_summary, rawColumn, cleaned>>

\* lines 152-220: totals, distinct counts, the KPI cards
ComputeKPIs ==
    /\ pc = "kpis"
    /\ IF KPI_COUNT_COLS \subseteq df.columns
       THEN /\ kpi' = [total_vetting |-> SumColumn(df_filtered, "Vetting_Amount_INR"),
                       total_released |-> SumColumn(df_filtered, "Released_Amount_INR"),
                       total_pending |-> SumColumn(df_filtered, "Pending_Amount_INR"),
                       count_sanction_file |-> NUnique(df_filtered, "Sanction_File_No"),
                       count_budget_head |-> NUnique(df_filtered, "Budget_Head"),
                       count_diary_no |-> NUnique(df_filtered, "Diary_No")]
            /\ rendered' = rendered \cup {"kpi_cards", "count_metrics"}
            /\ pc' = "charts"
       ELSE /\ rendered' = rendered \cup {"exception"}
            /\ pc' = "crashed"
            /\ UNCHANGED kpi
    /\ UNCHANGED <<clock, cache, fetched, df, df_for_project, df_for_budget, df_filtered,
                   selected_dso, selected_project_type, selected_budget,
                   dso_options, project_options, budget_options,
                   div_summary, scheme_summary, rawColumn, cleaned>>

DivisionSummary(rows) ==
    [key \in GroupKeys(rows, "Division") |->
        [Released |-> SumColumn(GroupRows(rows, "Division", key), "Released_Amount_INR"),
         Pending |-> SumColumn(GroupRows(rows, "Division", key), "Pending_Amount_INR")]]

SchemeSummary(rows) ==
    [key \in GroupKeys(rows, "Programme_Scheme") |->
        SumColumn(GroupRows(rows, "Programme_Scheme", key), "Vetting_Amount_INR")]

\* lines 226-297: the two charts, or the notice that nothing matches
RenderCharts ==
    /\ pc = "charts"
    /\ IF df_filtered = <<>>
       THEN /\ rendered' = rendered \cup {"info_no_data"}
            /\ pc' = "table"
            /\ UNCHANGED <<div_summary, scheme_summary>>
       ELSE IF "Division" \notin df.columns
       THEN /\ rendered' = rendered \cup {"exception"}
            /\ pc' = "crashed"
            /\ UNCHANGED <<div_summary, scheme_summary>>
       ELSE IF "Programme_Scheme" \notin df.columns
       THEN /\ div_summary' = DivisionSummary(df_filtered)
            /\ rendered' = rendered \cup {"division_chart", "exception"}
            /\ pc' = "crashed"
            /\ UNCHANGED scheme_summary
       ELSE /\ div_summary' = DivisionSummary(df_filtered)
            /\ scheme_summary' = SchemeSummary(df_filtered)
            /\ rendered' = rendered \cup {"division_chart", "scheme_chart"}
            /\ pc' = "table"
    /\ UNCHANGED <<clock, cache, fetched, df, df_for_project, df_for_budget, df_filtered,
                   selected_dso, selected_project_type, selected_budget,
                   dso_options, project_options, budget_options, kpi, rawColumn, cleaned>>

\* lines 300-315: the detail table
RenderTable ==
    /\ pc = "table"
    /\ rendered' = rendered \cup {"detail_table"}
    /\ pc' = "done"
    /\ UNCHANGED <<clock, cache, fetched, df, df_for_project, df_for_budget, df_filtered,
                   selected_dso, selected_project_type, selected_budget,
                   dso_options, project_options, budget_options,
                   kpi, div_summary, scheme_summary, rawColumn, cleaned>>

\* a widget change or a page reload runs the script again from the top
Rerun ==
    /\ pc \in {"done", "stopped", "crashed"}
    /\ pc' = "idle"
    /\ CycleReset
    /\ UNCHANGED <<clock, cache, rawColumn, cleaned>>

\* time passes; the script reads the clock only in the cache lookup of line 110, so
\* the time a cycle itself takes is added to the wait before the next one
Tick ==
    /\ pc = "idle"
    /\ clock + TickStep <= MaxClock
    /\ clock' = clock + TickStep
    /\ UNCHANGED <<pc, cache, fetched, df, df_for_project, df_for_budget, df_filtered,
                   selected_dso, selected_project_type, selected_budget,
                   dso_options, project_options, budget_options,
                   kpi, div_summary, scheme_summary, rendered, rawColumn, cleaned>>

\* the script, cycle after cycle, all within one freshness window of the cache
Next ==
    \/ LoadCached
    \/ LoadFetch
    \/ StopOnEmpty
    \/ SelectDSO
    \/ SelectProjectType
    \/ SelectBudget
    \/ ComputeKPIs
    \/ RenderCharts
    \/ RenderTable
    \/ Rerun

Spec == Init /\ [][Next]_vars

\* the same script with time passing, over the sheets that have every header
NextTimed ==
    \/ LoadCached
    \/ LoadFetchComplete
    \/ StopOnEmpty
    \/ SelectDSO
    \/ SelectProjectType
    \/ SelectBudget
    \/ ComputeKPIs
    \/ RenderCharts
    \/ RenderTable
    \/ Rerun
    \/ Tick

SpecTimed == Init /\ [][NextTimed]_vars

----------------------------------------------------------------------------
(* The numeric cleaning of lines 78-83 on its own, over all short cells *)

CellAlphabet == {"0", "1", "5", ".", ",", "e", "-"}

ShortCells == UNION {[1..n -> CellAlphabet] : n \in 0..MaxCellLen}

\* the cells of the documented examples and of small fractions
ExampleCells ==
    { <<"₹", "1", ",", "2", "3", "4", ".", "5", "0">>,
      <<"N", "/", "A">>,
      <<"0", ".", "0", "0", "0", "0", "1">> }

\* the rest of the column: a number, a missing cell, or some text
OtherCells == {<<"5">>, <<>>, <<"x">>}

InitClean ==
    /\ pc = "clean_input"
    /\ rawColumn \in {<<c, o>> : c \in ShortCells \cup ExampleCells, o \in OtherCells}
    /\ cleaned = <<>>
    /\ clock = 0
    /\ cache = NoCache
    /\ fetched = FALSE
    /\ df = EmptyDataFrame
    /\ df_for_project = <<>>
    /\ df_for_budget = <<>>
    /\ df_filtered = <<>>
    /\ selected_dso = Unset
    /\ selected_project_type = Unset
    /\ selected_budget = Unset
    /\ dso_options = <<>>
    /\ project_options = <<>>
    /\ budget_options = <<>>
    /\ kpi = NoKpi
    /\ div_summary = <<>>
    /\ scheme_summary = <<>>
    /\ rendered = {}

\* lines 82-83 on the column
CleanColumn ==
    /\ pc = "clean_input"
    /\ cleaned' = CleanNumericColumn(rawColumn)
    /\ pc' = "clean_done"
    /\ UNCHANGED <<clock, cache, fetched, df, df_for_project, df_for_budget, df_filtered,
                   selected_dso, selected_project_type, selected_budget,
                   dso_options, project_options, budget_options,
                   kpi, div_summary, scheme_summary, rendered, rawColumn>>

NextClean == CleanColumn

SpecClean == InitClean /\ [][NextClean]_vars

----------------------------------------------------------------------------
(* Properties *)

\* list is the strictly ascending listing of the set S
IsSortedListingOf(list, S) ==
    /\ Range(list) = S
    /\ \A i, j \in 1..Len(list) : i < j => StrLess(list[i], list[j])

\* the rows of a frame whose column holds the selection, all rows for the sentinel
Narrowed(rows, col, selected, sentinel) ==
    LET Matches(r) == selected = sentinel \/ AsText(r[col]) = selected
    IN  SelectSeq(rows, Matches)

\* sub consists of rows of the frame, each at most once, in the frame's order
IsSubFrame(sub, rows) ==
    /\ \A i \in 1..Len(sub) :
          /\ sub[i]["index"] + 1 \in 1..Len(rows)
          /\ rows[sub[i]["index"] + 1] = sub[i]
    /\ \A i, j \in 1..Len(sub) : i < j => sub[i]["index"] < sub[j]["index"]

AfterDSO == Narrowed(df.rows, "DSO", selected_dso, AllDSO)

AfterProjectType == Narrowed(AfterDSO, "Project_Type", selected_project_type, AllProjectTypes)

\* C1: the Project Type options are 'All Project Types' followed by the sorted distinct
\* Project_Type values of the rows left by the DSO selection, and the Budget options are
\* 'All Budgets' followed by the sorted distinct Budget values of the rows left by the DSO
\* and Project Type selections; both are among the options of the unfiltered dataset.
C1_CascadingOptions ==
    /\ "select_project_type" \in rendered =>
          /\ Head(project_options) = AllProjectTypes
          /\ IsSortedListingOf(Tail(project_options), ColumnValues(AfterDSO, "Project_Type"))
          /\ Range(Tail(project_options)) \subseteq ColumnValues(df.rows, "Project_Type")
    /\ "select_budget" \in rendered =>
          /\ Head(budget_options) = AllBudgets
          /\ IsSortedListingOf(Tail(budget_options), ColumnValues(AfterProjectType, "Budget"))
          /\ Range(Tail(budget_options)) \subseteq ColumnValues(df.rows, "Budget")

\* a DSO selection that leaves fewer Project Type options than the whole dataset has
C1_Witness ==
    /\ "select_budget" \in rendered
    /\ selected_dso # AllDSO
    /\ Range(Tail(project_options)) # ColumnValues(df.rows, "Project_Type")
    /\ Range(Tail(budget_options)) # ColumnValues(df.rows, "Budget")

\* C2: after each filter step the dataset consists of rows of the loaded dataset, unaltered
\* and at most once each, and it is no larger than the dataset before the step.
C2_FilteredIsSubset ==
    /\ "select_dso" \in rendered =>
          IsSubFrame(df_for_project, df.rows) /\ Len(df_for_project) <= Len(df.rows)
    /\ "select_project_type" \in rendered =>
          IsSubFrame(df_for_budget, df.rows) /\ Len(df_for_budget) <= Len(df_for_project)
    /\ "select_budget" \in rendered =>
          IsSubFrame(df_filtered, df.rows) /\ Len(df_filtered) <= Len(df_for_budget)

\* all three steps done, the dataset strictly narrowed and not empty
C2_Witness ==
    /\ "select_budget" \in rendered
    /\ selected_project_type # AllProjectTypes
    /\ Len(df_for_budget) < Len(df.rows)
    /\ Len(df_filtered) > 0

AllFrames ==
    Range(df.rows) \cup Range(cache.value.rows) \cup Range(df_for_project)
        \cup Range(df_for_budget) \cup Range(df_filtered)

\* C3: in every record of the loaded dataset, and of the dataset at every later stage,
\* Pending plus Released is exactly Vetting, and Pending is negative whenever Released
\* exceeds Vetting.
C3_PendingIsDifference ==
    \A r \in AllFrames :
        /\ DecAdd(r["Pending_Amount_INR"], r["Released_Amount_INR"]) = r["Vetting_Amount_INR"]
        /\ DecLess(r["Vetting_Amount_INR"], r["Released_Amount_INR"])
              => r["Pending_Amount_INR"].m < 0

\* an over-released record that reached the table
C3_Witness ==
    /\ pc = "done"
    /\ \E i \in 1..Len(df_filtered) :
          /\ DecLess(df_filtered[i]["Vetting_Amount_INR"], df_filtered[i]["Released_Amount_INR"])
          /\ df_filtered[i]["Pending_Amount_INR"].m < 0

\* what stripping every character but digits and points and parsing the rest gives
StripThenParse(cell) ==
    LET rest == StripNonNumeric(cell)
    IN  IF IsMantissa(rest) THEN FloatValue(rest) ELSE Zero

\* C4: every cleaned amount is its cell with every character but digits and decimal
\* points removed, parsed as a decimal number, or 0 when that is empty or does not parse.
C4_StripThenParse ==
    pc = "clean_done" => \A i \in 1..Len(rawColumn) : cleaned[i] = StripThenParse(rawColumn[i])

\* the same, for every cell but a number that is written, or that str() writes, with an
\* exponent
C4_HoldsWithoutExponent ==
    pc = "clean_done" =>
        \A i \in 1..Len(rawColumn) :
            (ExpMark(rawColumn[i]) = 0
                /\ (IsFloatLiteral(rawColumn[i])
                        => ExpMark(FloatRepr(FloatValue(rawColumn[i]))) = 0))
                => cleaned[i] = StripThenParse(rawColumn[i])

RECURSIVE SumOfGroups(_, _, _)
SumOfGroups(summary, keys, field) ==
    IF keys = {} THEN Zero
    ELSE LET k == CHOOSE x \in keys : TRUE
         IN  DecAdd(summary[k][field], SumOfGroups(summary, keys \ {k}, field))

RECURSIVE SumOfValues(_, _)
SumOfValues(summary, keys) ==
    IF keys = {} THEN Zero
    ELSE LET k == CHOOSE x \in keys : TRUE
         IN  DecAdd(summary[k], SumOfValues(summary, keys \ {k}))

\* C5: the per-Division sums of Released and Pending add up to total_released and
\* total_pending, and the per-scheme sums of Vetting add up to total_vetting.
C5_GroupSumsEqualTotals ==
    /\ "division_chart" \in rendered =>
          /\ SumOfGroups(div_summary, DOMAIN div_summary, "Released") = kpi.total_released
          /\ SumOfGroups(div_summary, DOMAIN div_summary, "Pending") = kpi.total_pending
    /\ "scheme_chart" \in rendered =>
          SumOfValues(scheme_summary, DOMAIN scheme_summary) = kpi.total_vetting

\* the distinct values of a text column that stand for a cell present in the sheet
\* (read_csv reads the text "nan" as missing, so "nan" is always a missing cell)
PresentValues(rows, col) == {rows[i][col] : i \in 1..Len(rows)} \ {NanText, NaN}

\* C6: each distinct-count KPI is the number of distinct values of its column among the
\* filtered records whose cell is not missing.
C6_CountsIgnoreMissing ==
    "count_metrics" \in rendered =>
        /\ kpi.count_sanction_file = Cardinality(PresentValues(df_filtered, "Sanction_File_No"))
        /\ kpi.count_budget_head = Cardinality(PresentValues(df_filtered, "Budget_Head"))
        /\ kpi.count_diary_no = Cardinality(PresentValues(df_filtered, "Diary_No"))

NeededColumns ==
    FINANCIAL_COLS \cup KPI_COUNT_COLS
        \cup {"DSO", "Project_Type", "Budget", "Division", "Programme_Scheme"}

DashboardParts ==
    {"select_dso", "select_project_type", "select_budget", "kpi_cards", "count_metrics",
     "division_chart", "scheme_chart", "detail_table"}

LoadErrors == {"error_fetch", "error_processing", "error_financial_columns"}

\* C7: a cycle whose fetch or parse failed, or whose dataset lacks a column a later stage
\* reads, produces no filter widget, KPI, chart or table: it stops at the error instead.
C7_FatalErrorsAllOrNothing ==
    (pc # "idle" /\ (rendered \cap LoadErrors # {}
                        \/ (~IsEmpty(df) /\ ~(NeededColumns \subseteq df.columns))))
        => rendered \cap DashboardParts = {}

\* C8: a cycle that starts less than 60 s after the entry was stored is served the stored
\* dataset without a request, one that starts more than 60 s after it (or with no entry)
\* makes a request and stores the result, and no other step changes the entry.
C8_CacheFreshness ==
    [][ /\ (pc = "idle" /\ pc' = "loaded" /\ cache.present /\ clock - cache.storedAt < TTL)
            => (~fetched' /\ cache' = cache /\ df' = cache.value)
        /\ (pc = "idle" /\ pc' = "loaded" /\ (~cache.present \/ clock - cache.storedAt > TTL))
            => (fetched' /\ cache'.present /\ cache'.storedAt = clock /\ df' = cache'.value)
        /\ pc # "idle" => cache' = cache ]_vars

\* a cycle served from a 40 s old entry that narrowed its copy and left the entry whole
C8_Witness ==
    /\ pc = "done"
    /\ ~fetched
    /\ clock - cache.storedAt = 2 * TickStep
    /\ Len(df_filtered) < Len(cache.value.rows)

\* C9: a step whose selection is its 'All' sentinel leaves the dataset as it entered the
\* step, and the next step's options are those of the dataset that entered the step.
C9_AllIsNoOp ==
    /\ ("select_dso" \in rendered /\ selected_dso = AllDSO) =>
          /\ df_for_project = df.rows
          /\ "select_project_type" \in rendered =>
                /\ Head(project_options) = AllProjectTypes
                /\ IsSortedListingOf(Tail(project_options), ColumnValues(df.rows, "Project_Type"))
    /\ ("select_project_type" \in rendered /\ selected_project_type = AllProjectTypes) =>
          /\ df_for_budget = df_for_project
          /\ "select_budget" \in rendered =>
                /\ Head(budget_options) = AllBudgets
                /\ IsSortedListingOf(Tail(budget_options), ColumnValues(df_for_project, "Budget"))
    /\ ("select_budget" \in rendered /\ selected_budget = AllBudgets) =>
          df_filtered = df_for_budget

\* 'All' at the first two steps of a dataset that has two project types and two budgets
C9_Witness ==
    /\ "select_budget" \in rendered
    /\ selected_dso = AllDSO
    /\ selected_project_type = AllProjectTypes
    /\ Len(project_options) >= 3
    /\ Len(budget_options) >= 3
    /\ Len(df_for_budget) = MaxRows

\* C10: in a cycle that got past the empty-dataset stop the dataset is not empty after any
\* filter step, and the "No data available" notice is never shown.
C10_NeverEmptyAfterFilters ==
    /\ "select_dso" \in rendered => df_for_project # <<>>
    /\ "select_project_type" \in rendered => df_for_budget # <<>>
    /\ "select_budget" \in rendered => df_filtered # <<>>
    /\ "info_no_data" \notin rendered

\* three narrowing selections, the first of them the missing DSO, and both charts drawn
C10_Witness ==
    /\ pc = "done"
    /\ selected_dso = NanText
    /\ selected_project_type # AllProjectTypes
    /\ selected_budget # AllBudgets
    /\ "scheme_chart" \in rendered

====
